---- MODULE Spec2Model ----
(***************************************************************************)
(* MongoType: the BSON visitor-parser (BSONObjectParser), its context      *)
(* stack (BSONParserStack), the three renderers (JSONDump,                 *)
(* BSONObjectTypeDump, BSONDotNotationDump) and the driver dumpCollection. *)
(*                                                                         *)
(* A document is a finite tree of nodes numbered in stored (pre-)order:    *)
(* node 1 is the root BSONObj, parent[i] < i, and the children of a node   *)
(* are stored in increasing node number.  One parse of one document is     *)
(* unfolded into one step per visitor event; the recursion of              *)
(* parseObjectRecursive / parseElementRecursive is kept in `frames`.       *)
(***************************************************************************)
EXTENDS Integers, Sequences, FiniteSets, TLC

\* Largest number of nodes (root included) of a document.
MaxNodes == 5

\* Largest number of documents the cursor of dumpCollection yields.
MaxDocs == 3

\* Largest depth of a BSONParserStack built through its own interface.
MaxDepth == 3

\* JSONDump::emitComma / emitKey: offset of the enclosing collection's entry.
ARRAY_PARENT_OFFSET == 2

\* doc       the document being parsed
\* pc        where the program is: in dumpCollection ("begin", "loop",
\*           "ended"), in BSONObjectParser::parse ("idle", "started",
\*           "parsing", "done"), after a std::logic_error left
\*           dumpCollection ("error"), or using a bare stack ("stack")
\* frames    the activations of parseObjectRecursive / parseElementRecursive
\* stack     the BSONParserStack
\* events    the calls made so far on the renderer
\* out       what was written to the output stream
\* style     params.getStyle()
\* renderer  the renderer's members: level (BSONObjectTypeDump) and
\*           dotStack (BSONDotNotationDump)
\* driver    dumpCollection's locals: the cursor, documentIndex, documentCount
\* call      the last call made on a bare BSONParserStack and its outcome
VARIABLES doc, pc, frames, stack, events, out, style, renderer, driver, call

vars == <<doc, pc, frames, stack, events, out, style, renderer, driver, call>>

-----------------------------------------------------------------------------
(* Documents (mongo::BSONObj / mongo::BSONElement as the parser sees them) *)

\* Field names an Object may use, in lexical (std::string operator<) order.
FieldNames == <<"a", "b", "c">>

\* Decimal text of small integers: the field name BSON stores for the i-th
\* element of an array is the text of i, and scalars print as their literal.
DecimalText == <<"0", "1", "2", "3", "4", "5", "6", "7", "8", "9">>

RECURSIVE to_string(_)
to_string(i) ==
    IF i < 0
    THEN "-" \o to_string(0 - i)
    ELSE IF i < Len(DecimalText)
         THEN DecimalText[i + 1]
         ELSE to_string(i \div Len(DecimalText)) \o DecimalText[(i % Len(DecimalText)) + 1]

BSONTypes == {"Object", "Array", "NumberInt"}

Seq1(n) == [i \in 1..n |-> i]

\* Stored children of node p, in stored order.
ChildrenOf(d, p) == SelectSeq(Seq1(d.n), LAMBDA i : d.parent[i] = p)

ChildSet(d, p) == {i \in 1..d.n : d.parent[i] = p}

\* Zero-based stored position of node i among its siblings.
PositionOf(d, i) == Cardinality({j \in 1..d.n : d.parent[j] = d.parent[i] /\ j < i})

\* parent is a pre-order numbering of an ordered tree rooted at node 1.
IsTreeShape(n, p) ==
    /\ p[1] = 0
    /\ \A i \in 2..n : p[i] \in 1..(i - 1)
    /\ \A j \in 2..n : \A k \in (j + 1)..n : p[k] < j => p[j] >= p[k]

\* Only Objects and Arrays have children; the root is an Object.
IsKinding(n, p, k) ==
    /\ k[1] = "Object"
    /\ \A i \in 2..n : k[p[i]] \in {"Object", "Array"}

\* The fields of one Object carry distinct names; the names an Object with m
\* fields uses are the first m of FieldNames in any stored order (names are
\* free up to renaming).  Where the slot is not a stored field name of an
\* Object (root, array elements) it holds FieldNames[1].
IsNaming(n, p, k, nm) ==
    \A o \in 1..n : k[o] = "Object" =>
       LET fields == {i \in 2..n : p[i] = o}
       IN  /\ Cardinality(fields) <= Len(FieldNames)
           /\ {nm[c] : c \in fields} = {FieldNames[j] : j \in 1..Cardinality(fields)}

Shapes(n) == {p \in [1..n -> 0..(n - 1)] : IsTreeShape(n, p)}

Kindings(n, p) == {k \in [1..n -> BSONTypes] : IsKinding(n, p, k)}

Namings(n, p, k) ==
    LET named == {i \in 2..n : k[p[i]] = "Object"}
        names == {FieldNames[j] : j \in 1..Len(FieldNames)}
    IN  {[i \in 1..n |-> IF i \in named THEN nm[i] ELSE FieldNames[1]]
           : nm \in {f \in [named -> names] : IsNaming(n, p, k, f)}}

Document(n, p, k, nm) == [n |-> n, parent |-> p, kind |-> k, name |-> nm]

\* BSONElement::type()
type(d, e) == d.kind[e]

\* BSONElement::fieldName(): the stored name of a field of an Object, the
\* decimal index for an element of an Array.
fieldName(d, e) ==
    IF d.parent[e] # 0 /\ d.kind[d.parent[e]] = "Array"
    THEN to_string(PositionOf(d, e))
    ELSE d.name[e]

\* BSONElement::toString(false, false): the literal of a scalar.
toString(d, e) == to_string(e)

\* BSONElement::Array(): the elements in stored order.
Array(d, e) == ChildrenOf(d, e)

-----------------------------------------------------------------------------
(* BSONParserStackItem and BSONParserStack                                 *)

ItemTypes == {"OBJECT", "ARRAY", "ELEMENT"}

\* BSONParserStackItem constructors: the node, its key and the four indices.
BSONParserStackItem(t, node, key, elementIndex, elementCount, arrayIndex, arrayCount) ==
    [type |-> t, node |-> node, key |-> key,
     elementIndex |-> elementIndex, elementCount |-> elementCount,
     arrayIndex |-> arrayIndex, arrayCount |-> arrayCount]

\* Outcomes of a stack access that returns no entry: std::logic_error thrown
\* by throwCount, and the unbounded self-recursion of item() (no result).
logic_error == BSONParserStackItem("logic_error", 0, "", 0, 0, 0, 0)

no_return == BSONParserStackItem("no_return", 0, "", 0, 0, 0, 0)

\* A call that returns nothing.
void == BSONParserStackItem("void", 0, "", 0, 0, 0, 0)

depth(s) == Len(s)

\* TRUE iff throwCount(count) throws.
throwCount(s, count) == depth(s) < count

push_twice(s, it) == Append(Append(s, it), it)

push(s, it) == Append(s, it)

\* drop(): delete pop(); pop throws on the empty stack and leaves it as is.
drop_keep(s) == s

drop(s) == IF throwCount(s, 1) THEN s ELSE SubSeq(s, 1, Len(s) - 1)

RECURSIVE item(_, _)
item(s, index) ==
    IF index >= 0
    THEN IF throwCount(s, index + 1) THEN logic_error ELSE s[index + 1]
    ELSE IF depth(s) = 0
         THEN no_return
         ELSE item(s, depth(s) + index)

\* top() reading the bottom entry.
top_bottom(s) == item(s, 0)

top(s) == item(s, depth(s) - 1)

\* pop() without throwCount(1).
pop_unchecked(s) ==
    IF depth(s) = 0
    THEN [ret |-> void, stack |-> s]
    ELSE [ret |-> s[Len(s)], stack |-> SubSeq(s, 1, Len(s) - 1)]

\* pop(): throwCount(1), then the top entry is taken off and returned.
pop(s) ==
    IF throwCount(s, 1)
    THEN [ret |-> logic_error, stack |-> s]
    ELSE [ret |-> s[Len(s)], stack |-> SubSeq(s, 1, Len(s) - 1)]

\* validate(t) that accepts every stored type.
validate_never(it, t) == FALSE

\* BSONParserStackItem::validate(t): TRUE iff it throws std::logic_error.
validate(it, t) == t # it.type

\* getObject() / getArray(): as getElement() below, the entry itself stands
\* for the BSONObj / BSONElement it points to.
getObject(it) == IF validate(it, "OBJECT") THEN logic_error ELSE it

getArray(it) == IF validate(it, "ARRAY") THEN logic_error ELSE it

\* getElement(): the entry itself stands for the BSONElement it points to.
getElement(it) == IF validate(it, "ELEMENT") THEN logic_error ELSE it

-----------------------------------------------------------------------------
(* Parameters, BSONTypeMap and BSONTypeFormatter                           *)

\* StyleParam, by the names Parameters maps to the enumerators.
STYLE_DOTTED == "dotted"

STYLE_TREE == "tree"

STYLE_JSON == "json"

STYLE_JSONPACKED == "jsonpacked"

\* params.getTypeMask(): the set of TYPE_NAME / TYPE_DESC / TYPE_CODE bits;
\* the default is TYPE_ALL.
TYPE_ALL == {"TYPE_NAME", "TYPE_DESC", "TYPE_CODE"}

\* params.getDbCollection().
DbCollection == "db.coll"

\* enum mongo::BSONType: the numeric code of each type.  NumberDecimal
\* stands for a code the lookup table has no entry for.
BSONType ==
    [MinKey |-> 0 - 1, EOO |-> 0, NumberDouble |-> 1, String |-> 2, Object |-> 3,
     Array |-> 4, BinData |-> 5, Undefined |-> 6, jstOID |-> 7, Bool |-> 8,
     Date |-> 9, jstNULL |-> 10, RegEx |-> 11, DBRef |-> 12, Code |-> 13,
     Symbol |-> 14, CodeWScope |-> 15, NumberInt |-> 16, Timestamp |-> 17,
     NumberLong |-> 18, JSTypeMax |-> 18, MaxKey |-> 127, NumberDecimal |-> 19]

BSONTypeElement(name, desc) == [name |-> name, desc |-> desc]

make_pair(t, element) == [first |-> BSONType[t], second |-> element]

\* The initializer list of BSONTypeLookupTable.
BSONTypeLookupTable ==
    <<make_pair("MinKey", BSONTypeElement("MinKey", "MinKey")),
      make_pair("EOO", BSONTypeElement("EOO", "EOO")),
      make_pair("NumberDouble", BSONTypeElement("NumberDouble", "Double")),
      make_pair("String", BSONTypeElement("String", "UTF8")),
      make_pair("Object", BSONTypeElement("Object", "BSON")),
      make_pair("Array", BSONTypeElement("Array", "BSON Array")),
      make_pair("BinData", BSONTypeElement("BinData", "Binary")),
      make_pair("Undefined", BSONTypeElement("Undefined", "Undefined")),
      make_pair("jstOID", BSONTypeElement("jstOID", "ObjectId")),
      make_pair("Bool", BSONTypeElement("Bool", "Boolean")),
      make_pair("Date", BSONTypeElement("Date", "Date")),
      make_pair("jstNULL", BSONTypeElement("jstNULL", "NULL")),
      make_pair("RegEx", BSONTypeElement("RegEx", "Regex")),
      make_pair("DBRef", BSONTypeElement("DBRef", "deprecated")),
      make_pair("Code", BSONTypeElement("Code", "deprecated")),
      make_pair("Symbol", BSONTypeElement("Symbol", "Symbol")),
      make_pair("CodeWScope", BSONTypeElement("CodeWScope", "Javascript")),
      make_pair("NumberInt", BSONTypeElement("NumberInt", "int32")),
      make_pair("Timestamp", BSONTypeElement("Timestamp", "Timestamp")),
      make_pair("NumberLong", BSONTypeElement("NumberLong", "int64")),
      make_pair("JSTypeMax", BSONTypeElement("JSTypeMax", "Max Object Value Used")),
      make_pair("MaxKey", BSONTypeElement("MaxKey", "MaxKey"))>>

\* std::map built from the list: of two pairs with the same key the first is
\* kept.  Has: the map has the key; at: the value stored under it.
Has(table, code) == \E i \in 1..Len(table) : table[i].first = code

at(table, code) ==
    table[CHOOSE i \in 1..Len(table) :
              /\ table[i].first = code
              /\ \A j \in 1..(i - 1) : table[j].first # code].second

\* The value thrown when at() finds no entry, if nothing catches it.
out_of_range == BSONTypeElement("std::out_of_range", "std::out_of_range")

\* lookup() that lets std::out_of_range through.
lookup_uncaught(t) ==
    IF Has(BSONTypeLookupTable, BSONType[t])
    THEN at(BSONTypeLookupTable, BSONType[t])
    ELSE out_of_range

\* BSONTypeMap::lookup(type): the entry of the table, or unk when at() throws
\* std::out_of_range.
lookup(t) ==
    IF Has(BSONTypeLookupTable, BSONType[t])
    THEN at(BSONTypeLookupTable, BSONType[t])
    ELSE BSONTypeElement("UNKNOWN", "UNKNOWN")

\* BSONTypeFormatter::to_string(): s starts as "(", so the s.length() tests
\* before the description and the code always succeed.
BSONTypeFormatter(typeMask, t) ==
    IF typeMask = {}
    THEN <<>>
    ELSE LET bsts == lookup(t)
             s0 == <<"(">>
             s1 == IF "TYPE_NAME" \in typeMask THEN Append(s0, bsts.name) ELSE s0
             s2 == IF "TYPE_DESC" \in typeMask
                   THEN (IF Len(s1) > 0 THEN Append(s1, "/") ELSE s1) \o <<bsts.desc>>
                   ELSE s1
             s3 == IF "TYPE_CODE" \in typeMask
                   THEN (IF Len(s2) > 0 THEN Append(s2, "/") ELSE s2)
                            \o <<to_string(BSONType[t])>>
                   ELSE s2
         IN  Append(s3, ")")

\* A BSONElement written to a stream or converted to string: its field
\* name, ": " and its value.
ElementText(d, e) == <<fieldName(d, e), ": ", toString(d, e)>>

-----------------------------------------------------------------------------
(* JSONDump: the output stream is the sequence of strings written to it.   *)
(* One tstr call writes one chunk; a chunk written through istr starts     *)
(* with a newline and `level` copies of the indent string.                 *)

tstr(o, token) == Append(o, [nl |-> FALSE, level |-> 0, text |-> token])

istr(o, token, level) == Append(o, [nl |-> TRUE, level |-> level, text |-> token])

Comma == <<",">>

KeyText(key) == <<"\"", key, "\" : ">>

emitComma_noArrayIndex(o, s) ==
    IF depth(s) >= ARRAY_PARENT_OFFSET
    THEN LET parent == item(s, -ARRAY_PARENT_OFFSET)
             parentIsNotArray == parent.type # "ARRAY"
         IN  IF top(s).elementIndex > 0 /\ parentIsNotArray
             THEN tstr(o, Comma)
             ELSE o
    ELSE o

emitComma(o, s) ==
    IF depth(s) >= ARRAY_PARENT_OFFSET
    THEN LET parent == item(s, -ARRAY_PARENT_OFFSET)
             parentIsNotArray == parent.type # "ARRAY"
         IN  IF top(s).elementIndex > 0 /\ (parentIsNotArray \/ top(s).arrayIndex > 0)
             THEN tstr(o, Comma)
             ELSE o
    ELSE o

\* emitKey without the test of the enclosing entry.
emitKey_anyParent(o, s) ==
    LET str == IF depth(s) > 1 THEN KeyText(top(s).key) ELSE <<>>
    IN  istr(o, str, depth(s))

emitKey(o, s) ==
    LET parentIsNotArray ==
            IF depth(s) >= ARRAY_PARENT_OFFSET
            THEN item(s, -ARRAY_PARENT_OFFSET).type # "ARRAY"
            ELSE TRUE
        str == IF depth(s) > 1 /\ parentIsNotArray THEN KeyText(top(s).key) ELSE <<>>
    IN  istr(o, str, depth(s))

\* nextLine with params.isStackDebug() off.
nextLine_keyFirst(o, s) == emitComma(emitKey(o, s), s)

nextLine(o, s) == emitKey(emitComma(o, s), s)

JSONDump_onObjectStart(o, s) == tstr(nextLine(o, s), <<"{">>)

JSONDump_onObjectEnd(o, s) == istr(o, <<"}">>, depth(s))

JSONDump_onArrayStart(o, s) == tstr(nextLine(o, s), <<"[">>)

JSONDump_onArrayEnd_outdent(o, s) == istr(o, <<"]">>, depth(s) - 1)

JSONDump_onArrayEnd(o, s) == istr(o, <<"]">>, depth(s))

JSONDump_onElement(d, o, s) == tstr(nextLine(o, s), <<toString(d, top(s).node)>>)

\* JSONDump::begin, end and render up to the parse.
JSONDump_begin(o) == tstr(o, <<"[">>)

JSONDump_end(o) == tstr(o, <<"\n]">>)

\* render() deciding on the comma by a flag that outlives the renderer (set
\* by the first render ever run) instead of by docIndex.
JSONDump_render_static(o, docIndex) == IF driver.runs > 0 THEN tstr(o, Comma) ELSE o

JSONDump_render(o, docIndex) == IF docIndex > 0 THEN tstr(o, Comma) ELSE o

-----------------------------------------------------------------------------
(* The renderer objects.  A handler returns the output stream, the         *)
(* renderer's members and whether it threw std::logic_error.               *)

H(o, r, thrown) == [out |-> o, renderer |-> r, thrown |-> thrown]

\* The three constructors as dumpCollection calls them.
Renderer(class, indentStr, initialToken, dotStack) ==
    [class |-> class, indentStr |-> indentStr, initialToken |-> initialToken,
     level |-> 0, dotStack |-> dotStack, typeMask |-> TYPE_ALL]

\* The renderer when params holds --type typeMask: the handlers read it
\* through their reference to params.
WithTypeMask(r, typeMask) == [r EXCEPT !.typeMask = typeMask]

JSONDump(pindentStr) == Renderer("JSONDump", pindentStr, "", <<>>)

BSONObjectTypeDump(pinitialToken) == Renderer("BSONObjectTypeDump", " ", pinitialToken, <<>>)

BSONDotNotationDump(initialToken) == Renderer("BSONDotNotationDump", "", "", <<<<initialToken>>>>)

\* dumpCollection's switch over params.getStyle().
NewRenderer(st) ==
    CASE st = STYLE_DOTTED -> BSONDotNotationDump(DbCollection)
      [] st = STYLE_TREE -> BSONObjectTypeDump(DbCollection)
      [] st = STYLE_JSON -> JSONDump("  ")
      [] st = STYLE_JSONPACKED -> JSONDump("  ")

(* BSONObjectTypeDump: a line is "\n", istr() and its text.                *)

TypeDump_onObjectStart(o, r, s) ==
    LET index == IF top(s).arrayIndex >= 0
                 THEN <<"[", to_string(top(s).arrayIndex), "]: ">>
                 ELSE <<>>
    IN  H(istr(o, index \o <<"{">>, r.level), [r EXCEPT !.level = r.level + 1], FALSE)

TypeDump_onObjectEnd(o, r, s) ==
    H(istr(o, <<"}">>, r.level - 1), [r EXCEPT !.level = r.level - 1], FALSE)

TypeDump_onArrayStart(o, r, s) ==
    H(tstr(o, <<" {ARRAY[", to_string(top(s).arrayCount), "]}">>),
      [r EXCEPT !.level = r.level + 1], FALSE)

TypeDump_onArrayEnd_sameLevel(o, r, s) == H(o, r, FALSE)

TypeDump_onArrayEnd(o, r, s) == H(o, [r EXCEPT !.level = r.level - 1], FALSE)

TypeDump_onElement(d, o, r, s) ==
    LET element == getElement(top(s))
    IN  IF element = logic_error
        THEN H(o, r, TRUE)
        ELSE H(istr(o, ElementText(d, element.node) \o <<" ">>
                         \o BSONTypeFormatter(r.typeMask, type(d, element.node)), r.level),
               r, FALSE)

TypeDump_render(o, r) == tstr(o, <<"\n", r.initialToken, " =>">>)

(* BSONDotNotationDump: dotStack holds the segments of the current path,   *)
(* each the sequence of the strings it was built from.                     *)

\* for (string s: dotStack) acc += s.
RECURSIVE Concat(_)
Concat(segments) ==
    IF segments = <<>> THEN <<>> ELSE Head(segments) \o Concat(Tail(segments))

DotDump_onObjectStart(o, r, s) ==
    IF top(s).arrayIndex >= 0
    THEN H(o, [r EXCEPT !.dotStack = Append(r.dotStack,
                   <<"[", to_string(top(s).arrayIndex), "]">>)], FALSE)
    ELSE H(o, r, FALSE)

DotDump_onObjectEnd(o, r, s) ==
    IF top(s).arrayIndex >= 0
    THEN H(o, [r EXCEPT !.dotStack = SubSeq(r.dotStack, 1, Len(r.dotStack) - 1)], FALSE)
    ELSE H(o, r, FALSE)

\* stack.top().getElement().fieldName(): the top entry is the ARRAY entry.
DotDump_onArrayStart_pushFirst(d, o, r, s) ==
    LET element == getElement(top(s))
        pushed == [r EXCEPT !.dotStack = Append(r.dotStack, <<".", fieldName(d, top(s).node)>>)]
    IN  H(o, pushed, element = logic_error)

DotDump_onArrayStart(d, o, r, s) ==
    LET element == getElement(top(s))
    IN  IF element = logic_error
        THEN H(o, r, TRUE)
        ELSE H(o, [r EXCEPT !.dotStack = Append(r.dotStack,
                       <<".", fieldName(d, element.node)>>)], FALSE)

DotDump_onArrayEnd(o, r, s) ==
    H(o, [r EXCEPT !.dotStack = SubSeq(r.dotStack, 1, Len(r.dotStack) - 1)], FALSE)

DotDump_onElement(d, o, r, s) ==
    LET element == getElement(top(s))
    IN  IF element = logic_error
        THEN H(o, r, TRUE)
        ELSE H(tstr(o, Concat(r.dotStack) \o <<".">> \o ElementText(d, element.node)
                         \o <<" ">> \o BSONTypeFormatter(r.typeMask, type(d, element.node))
                         \o <<"\n">>),
               r, FALSE)

DotDump_render(o) == tstr(o, <<"\n">>)

(* IBSONObjectVisitor / IBSONRenderer: the virtual calls on the renderer.  *)

onParseStart(r) ==
    IF r.class = "BSONObjectTypeDump" THEN [r EXCEPT !.level = 0] ELSE r

\* A call through IBSONObjectVisitor: what the handler returns, and the
\* traverser's stack as the call leaves it.  Every handler takes the stack as
\* const BSONParserStack& and calls only its const members (top, item, depth).
Called_pushed(s, h) ==
    [out |-> h.out, renderer |-> h.renderer, thrown |-> h.thrown, stack |-> push(s, top(s))]

Called(s, h) ==
    [out |-> h.out, renderer |-> h.renderer, thrown |-> h.thrown, stack |-> s]

onObjectStart(o, r, s) ==
    Called(s,
        CASE r.class = "JSONDump" -> H(JSONDump_onObjectStart(o, s), r, FALSE)
          [] r.class = "BSONObjectTypeDump" -> TypeDump_onObjectStart(o, r, s)
          [] r.class = "BSONDotNotationDump" -> DotDump_onObjectStart(o, r, s))

onObjectEnd(o, r, s) ==
    Called(s,
        CASE r.class = "JSONDump" -> H(JSONDump_onObjectEnd(o, s), r, FALSE)
          [] r.class = "BSONObjectTypeDump" -> TypeDump_onObjectEnd(o, r, s)
          [] r.class = "BSONDotNotationDump" -> DotDump_onObjectEnd(o, r, s))

onArrayStart(d, o, r, s) ==
    Called(s,
        CASE r.class = "JSONDump" -> H(JSONDump_onArrayStart(o, s), r, FALSE)
          [] r.class = "BSONObjectTypeDump" -> TypeDump_onArrayStart(o, r, s)
          [] r.class = "BSONDotNotationDump" -> DotDump_onArrayStart(d, o, r, s))

onArrayEnd(o, r, s) ==
    Called(s,
        CASE r.class = "JSONDump" -> H(JSONDump_onArrayEnd(o, s), r, FALSE)
          [] r.class = "BSONObjectTypeDump" -> TypeDump_onArrayEnd(o, r, s)
          [] r.class = "BSONDotNotationDump" -> DotDump_onArrayEnd(o, r, s))

onElement(d, o, r, s) ==
    Called(s,
        CASE r.class = "JSONDump" -> H(JSONDump_onElement(d, o, s), r, FALSE)
          [] r.class = "BSONObjectTypeDump" -> TypeDump_onElement(d, o, r, s)
          [] r.class = "BSONDotNotationDump" -> DotDump_onElement(d, o, r, s))

\* begin(NULL) and end(NULL): only JSONDump writes anything.
begin(o, r) == IF r.class = "JSONDump" THEN JSONDump_begin(o) ELSE o

end(o, r) == IF r.class = "JSONDump" THEN JSONDump_end(o) ELSE o

\* render(object, docIndex, docCount) up to the construction of the parser.
render(o, r, docIndex) ==
    CASE r.class = "JSONDump" -> JSONDump_render(o, docIndex)
      [] r.class = "BSONObjectTypeDump" -> TypeDump_render(o, r)
      [] r.class = "BSONDotNotationDump" -> DotDump_render(o)

-----------------------------------------------------------------------------
(* BSONObjectParser                                                        *)

\* BSONObj::getFieldNames(set<string>&): the set of the object's field names.
getFieldNames(d, object) == {d.name[c] : c \in ChildSet(d, object)}

\* Iteration order of std::set<string>: ascending, each name once.
SetOrder_dropFirst(names) ==
    LET all == SelectSeq(FieldNames, LAMBDA nm : nm \in names)
    IN  IF all = <<>> THEN all ELSE Tail(all)

SetOrder(names) == SelectSeq(FieldNames, LAMBDA nm : nm \in names)

\* BSONObj::getField(name): the stored field of that name.
getField(d, object, key) == CHOOSE c \in ChildSet(d, object) : d.name[c] = key

\* An activation of parseObjectRecursive (fn = "object": keys, ei, ec are its
\* locals) or of the Array case of parseElementRecursive (fn = "array":
\* elementArray, elementArrayIndex, elementArrayCount are its locals), with
\* the parameters it was called with.
Frame(fn, node, elementIndex, elementCount, arrayIndex, arrayCount, keys, ec, elementArray) ==
    [fn |-> fn, node |-> node,
     elementIndex |-> elementIndex, elementCount |-> elementCount,
     arrayIndex |-> arrayIndex, arrayCount |-> arrayCount,
     keys |-> keys, ei |-> 0, ec |-> ec,
     elementArray |-> elementArray, elementArrayIndex |-> 0,
     elementArrayCount |-> Len(elementArray)]

Call(element, key, elementIndex, elementCount, arrayIndex, arrayCount) ==
    [element |-> element, key |-> key,
     elementIndex |-> elementIndex, elementCount |-> elementCount,
     arrayIndex |-> arrayIndex, arrayCount |-> arrayCount]

\* The loop of the running activation has another iteration.
HasNext(f) ==
    IF f.fn = "object"
    THEN f.keys # <<>>
    ELSE f.elementArrayIndex < Len(f.elementArray)

\* The call parseElementRecursive(...) made by the next loop iteration of
\* activation f; an Object's fields are called without arrayCount, which
\* takes its default 0.
NextCall_inherit(d, f) ==
    IF f.fn = "object"
    THEN LET key == Head(f.keys)
         IN  Call(getField(d, f.node, key), key, f.ei, f.ec, f.arrayIndex, 0)
    ELSE LET e == f.elementArray[f.elementArrayIndex + 1]
         IN  Call(e, fieldName(d, e), f.elementIndex, f.elementCount,
                  f.arrayIndex, f.arrayCount)

NextCall(d, f) ==
    IF f.fn = "object"
    THEN LET key == Head(f.keys)
         IN  Call(getField(d, f.node, key), key, f.ei, f.ec, f.arrayIndex, 0)
    ELSE LET e == f.elementArray[f.elementArrayIndex + 1]
         IN  Call(e, fieldName(d, e), f.elementIndex, f.elementCount,
                  f.elementArrayIndex, f.elementArrayCount)

\* The activation after the call of its next iteration: ei++ / elementArrayIndex++.
Advance_noIncrement(f) ==
    IF f.fn = "object"
    THEN [f EXCEPT !.keys = Tail(f.keys)]
    ELSE [f EXCEPT !.elementArrayIndex = f.elementArrayIndex + 1]

Advance(f) ==
    IF f.fn = "object"
    THEN [f EXCEPT !.keys = Tail(f.keys), !.ei = f.ei + 1]
    ELSE [f EXCEPT !.elementArrayIndex = f.elementArrayIndex + 1]

\* The call that runs next: parse()'s call of parseObjectRecursive on the
\* root with the default indices, or the next call of the innermost loop.
CallPending == pc = "started" \/ (pc = "parsing" /\ frames # <<>> /\ HasNext(frames[Len(frames)]))

PendingCall_rootIndexed ==
    IF pc = "started"
    THEN Call(1, "", 0, 1, 0, 1)
    ELSE NextCall(doc, frames[Len(frames)])

PendingCall ==
    IF pc = "started"
    THEN Call(1, "", 0, 1, -1, 0)
    ELSE NextCall(doc, frames[Len(frames)])

\* The activations once the pending call is entered, its own not included.
Callers ==
    IF pc = "started"
    THEN frames
    ELSE [frames EXCEPT ![Len(frames)] = Advance(frames[Len(frames)])]

Event(name, node, s, o) == [name |-> name, node |-> node, stack |-> s, outLen |-> Len(o)]

StackCall(op, index, before, ret) == [op |-> op, index |-> index, before |-> before, ret |-> ret]

NoCall == StackCall("none", 0, <<>>, void)

\* dumpCollection's locals; running is FALSE when render's parse is looked
\* at on its own.
Driver(running, cursor, documentIndex, documentCount) ==
    [running |-> running, cursor |-> cursor,
     documentIndex |-> documentIndex, documentCount |-> documentCount]

\* A DBClientCursor: the documents of the query's result and how many of
\* them next() has returned.
Cursor(batch) == [batch |-> batch, pos |-> 0]

more(cursor) == cursor.pos < Len(cursor.batch)

next(cursor) == [o |-> cursor.batch[cursor.pos + 1],
                 cursor |-> [cursor EXCEPT !.pos = cursor.pos + 1]]

NoDriver == Driver(FALSE, Cursor(<<>>), 0, 1)

\* BSONObjectParser objectParser(*this); objectParser.parse(object) for one
\* document and the renderer dumpCollection builds for style st.
ParseInit(st) ==
    /\ \E n \in 1..MaxNodes : \E p \in Shapes(n) : \E k \in Kindings(n, p) :
          \E nm \in Namings(n, p, k) : doc = Document(n, p, k, nm)
    /\ pc = "idle"
    /\ frames = <<>>
    /\ stack = <<>>
    /\ events = <<>>
    /\ out = <<>>
    /\ style = st
    /\ renderer = NewRenderer(st)
    /\ driver = NoDriver
    /\ call = NoCall

Init == ParseInit(STYLE_JSON)

\* parse(): visitor.onParseStart(), then the call of parseObjectRecursive.
ParseStart_twice ==
    /\ pc = "idle"
    /\ pc' = "started"
    /\ renderer' = onParseStart(renderer)
    /\ events' = events \o <<Event("onParseStart", 0, stack, out), Event("onParseStart", 0, stack, out)>>
    /\ UNCHANGED <<doc, frames, stack, out, style, driver, call>>

ParseStart ==
    /\ pc = "idle"
    /\ pc' = "started"
    /\ renderer' = onParseStart(renderer)
    /\ events' = Append(events, Event("onParseStart", 0, stack, out))
    /\ UNCHANGED <<doc, frames, stack, out, style, driver, call>>

\* The end of a visitor call that changed the parser as pcNext, framesNext and
\* stackNext say if it returned.  If it threw, the std::logic_error leaves
\* parse(), render() and dumpCollection with the stack as it was at the call.
Visited_swallow(h, s, pcNext, framesNext, stackNext) ==
    /\ out' = h.out
    /\ renderer' = h.renderer
    /\ pc' = pcNext
    /\ frames' = framesNext
    /\ stack' = stackNext
    /\ UNCHANGED <<doc, style, driver, call>>

Visited(h, s, pcNext, framesNext, stackNext) ==
    /\ out' = h.out
    /\ renderer' = h.renderer
    /\ IF h.thrown
       THEN pc' = "error" /\ frames' = <<>> /\ stack' = s
       ELSE pc' = pcNext /\ frames' = framesNext /\ stack' = stackNext
    /\ UNCHANGED <<doc, style, driver, call>>

\* parseObjectRecursive up to its loop, entered from parse() or through the
\* Object case of parseElementRecursive (key = element.fieldName()).
ObjectStart ==
    /\ CallPending
    /\ LET c == PendingCall
           object == c.element
           key == IF pc = "started" THEN c.key ELSE fieldName(doc, c.element)
           s == push(stack, BSONParserStackItem("OBJECT", object, key,
                        c.elementIndex, c.elementCount, c.arrayIndex, c.arrayCount))
           keys == SetOrder(getFieldNames(doc, object))
           h == onObjectStart(out, renderer, s)
       IN  /\ type(doc, object) = "Object"
           /\ events' = Append(events, Event("onObjectStart", object, s, out))
           /\ Visited(h, h.stack, "parsing",
                      Append(Callers,
                             Frame("object", object, c.elementIndex, c.elementCount,
                                   c.arrayIndex, c.arrayCount, keys, Len(keys), <<>>)),
                      h.stack)

\* parseObjectRecursive after its loop: visitor.onObjectEnd, stack.drop, return.
ObjectEnd_dropFirst ==
    /\ pc = "parsing"
    /\ frames # <<>>
    /\ frames[Len(frames)].fn = "object"
    /\ ~HasNext(frames[Len(frames)])
    /\ events' = Append(events, Event("onObjectEnd", frames[Len(frames)].node, drop(stack), out))
    /\ LET h == onObjectEnd(out, renderer, drop(stack))
       IN  Visited(h, h.stack, pc, SubSeq(frames, 1, Len(frames) - 1), h.stack)

ObjectEnd ==
    /\ pc = "parsing"
    /\ frames # <<>>
    /\ frames[Len(frames)].fn = "object"
    /\ ~HasNext(frames[Len(frames)])
    /\ events' = Append(events, Event("onObjectEnd", frames[Len(frames)].node, stack, out))
    /\ LET h == onObjectEnd(out, renderer, stack)
       IN  Visited(h, h.stack, pc, SubSeq(frames, 1, Len(frames) - 1), drop(h.stack))

\* parseElementRecursive, Array case, up to its loop.
ArrayStart ==
    /\ pc = "parsing"
    /\ CallPending
    /\ LET c == PendingCall
           s == push(stack, BSONParserStackItem("ARRAY", c.element, c.key,
                        c.elementIndex, c.elementCount, c.arrayIndex, c.arrayCount))
           h == onArrayStart(doc, out, renderer, s)
       IN  /\ type(doc, c.element) = "Array"
           /\ events' = Append(events, Event("onArrayStart", c.element, s, out))
           /\ Visited(h, h.stack, pc,
                      Append(Callers,
                             Frame("array", c.element, c.elementIndex, c.elementCount,
                                   c.arrayIndex, c.arrayCount, <<>>, 0, Array(doc, c.element))),
                      h.stack)

\* parseElementRecursive, Array case, after its loop.
ArrayEnd_noEvent ==
    /\ pc = "parsing"
    /\ frames # <<>>
    /\ frames[Len(frames)].fn = "array"
    /\ ~HasNext(frames[Len(frames)])
    /\ stack' = drop(stack)
    /\ frames' = SubSeq(frames, 1, Len(frames) - 1)
    /\ UNCHANGED <<doc, pc, out, events, style, renderer, driver, call>>

ArrayEnd ==
    /\ pc = "parsing"
    /\ frames # <<>>
    /\ frames[Len(frames)].fn = "array"
    /\ ~HasNext(frames[Len(frames)])
    /\ events' = Append(events, Event("onArrayEnd", frames[Len(frames)].node, stack, out))
    /\ LET h == onArrayEnd(out, renderer, stack)
       IN  Visited(h, h.stack, pc, SubSeq(frames, 1, Len(frames) - 1), drop(h.stack))

\* parseElementRecursive, default case: push, visitor.onElement, drop.
Element_noPush ==
    /\ pc = "parsing"
    /\ CallPending
    /\ LET c == PendingCall
           s == stack
       IN  /\ type(doc, c.element) \notin {"Object", "Array"}
           /\ events' = Append(events, Event("onElement", c.element, s, out))
           /\ Visited(onElement(doc, out, renderer, s), s, pc, Callers, s)

Element ==
    /\ pc = "parsing"
    /\ CallPending
    /\ LET c == PendingCall
           s == push(stack, BSONParserStackItem("ELEMENT", c.element, c.key,
                        c.elementIndex, c.elementCount, c.arrayIndex, c.arrayCount))
           h == onElement(doc, out, renderer, s)
       IN  /\ type(doc, c.element) \notin {"Object", "Array"}
           /\ events' = Append(events, Event("onElement", c.element, s, out))
           /\ Visited(h, h.stack, pc, Callers, drop(h.stack))

\* parse(): parseObjectRecursive has returned; visitor.onParseEnd().
ParseEnd ==
    /\ pc = "parsing"
    /\ frames = <<>>
    /\ pc' = "done"
    /\ events' = Append(events, Event("onParseEnd", 0, stack, out))
    /\ UNCHANGED <<doc, frames, stack, out, style, renderer, driver, call>>

Next ==
    \/ ParseStart
    \/ ObjectStart
    \/ ObjectEnd
    \/ ArrayStart
    \/ ArrayEnd
    \/ Element
    \/ ParseEnd

Spec == Init /\ [][Next]_vars

\* The same parse with the renderer of each other style.
InitPacked == ParseInit(STYLE_JSONPACKED)

SpecPacked == InitPacked /\ [][Next]_vars

InitTree == ParseInit(STYLE_TREE)

SpecTree == InitTree /\ [][Next]_vars

InitDotted == ParseInit(STYLE_DOTTED)

\* With BSONDotNotationDump the loop of an Array is never entered, because
\* onArrayStart throws, so the Array case never gets to its end.
NextDotted ==
    \/ ParseStart
    \/ ObjectStart
    \/ ObjectEnd
    \/ ArrayStart
    \/ Element
    \/ ParseEnd

SpecDotted == InitDotted /\ [][NextDotted]_vars

-----------------------------------------------------------------------------
(* dumpCollection                                                          *)

Styles == {STYLE_DOTTED, STYLE_TREE, STYLE_JSON, STYLE_JSONPACKED}

\* All documents of n nodes.
Documents(n) ==
    UNION {UNION {{Document(n, p, k, nm) : nm \in Namings(n, p, k)} :
                  k \in Kindings(n, p)} : p \in Shapes(n)}

\* The documents a collection holds here: the empty document and the
\* documents of one field (a scalar, an empty Object, an empty Array).
CollectionDocuments == Documents(1) \cup Documents(1 + 1)

EmptyDocument == CHOOSE d \in Documents(1) : TRUE

\* dumpCollection after the renderer is built and setOutputStream is called:
\* documentCount is c.count(), cursor is the query's result.
DumpInit ==
    /\ \E documentCount \in 0..MaxDocs :
          \E batch \in [1..documentCount -> CollectionDocuments] :
             driver = Driver(TRUE, Cursor(batch), 0, documentCount)
    /\ style \in Styles
    /\ renderer = NewRenderer(style)
    /\ pc = "begin"
    /\ doc = EmptyDocument
    /\ frames = <<>>
    /\ stack = <<>>
    /\ events = <<>>
    /\ out = <<>>
    /\ call = NoCall

\* renderer->begin(NULL).
Begin_nothing ==
    /\ pc = "begin"
    /\ pc' = "loop"
    /\ events' = Append(events, Event("begin", 0, stack, out))
    /\ UNCHANGED <<doc, frames, stack, out, style, renderer, driver, call>>

Begin ==
    /\ pc = "begin"
    /\ pc' = "loop"
    /\ out' = begin(out, renderer)
    /\ events' = Append(events, Event("begin", 0, stack, out))
    /\ UNCHANGED <<doc, frames, stack, style, renderer, driver, call>>

\* The head of the while loop, reached from begin or from a returned render.
AtLoop == driver.running /\ pc \in {"loop", "done"}

\* The loop body with documentIndex instead of documentIndex++.
Render_sameIndex ==
    /\ AtLoop
    /\ more(driver.cursor)
    /\ doc' = next(driver.cursor).o
    /\ driver' = [driver EXCEPT !.cursor = next(driver.cursor).cursor]
    /\ out' = render(out, renderer, driver.documentIndex)
    /\ events' = Append(events, Event("render", driver.documentIndex, <<>>, out))
    /\ stack' = <<>>
    /\ frames' = <<>>
    /\ pc' = "idle"
    /\ UNCHANGED <<style, renderer, call>>

\* cursor->more() is true: o = cursor->next(); renderer->render(o,
\* documentIndex++, documentCount) up to the call of parse() on a new parser.
Render ==
    /\ AtLoop
    /\ more(driver.cursor)
    /\ doc' = next(driver.cursor).o
    /\ driver' = [driver EXCEPT !.cursor = next(driver.cursor).cursor,
                                !.documentIndex = driver.documentIndex + 1]
    /\ out' = render(out, renderer, driver.documentIndex)
    /\ events' = Append(events, Event("render", driver.documentIndex, <<>>, out))
    /\ stack' = <<>>
    /\ frames' = <<>>
    /\ pc' = "idle"
    /\ UNCHANGED <<style, renderer, call>>

\* cursor->more() is false: renderer->end(NULL).
End ==
    /\ AtLoop
    /\ ~more(driver.cursor)
    /\ pc' = "ended"
    /\ out' = end(out, renderer)
    /\ events' = Append(events, Event("end", 0, stack, out))
    /\ UNCHANGED <<doc, frames, stack, style, renderer, driver, call>>

NextDump ==
    \/ Begin
    \/ Render
    \/ End
    \/ ParseStart
    \/ ObjectStart
    \/ ObjectEnd
    \/ ArrayStart
    \/ ArrayEnd
    \/ Element
    \/ ParseEnd

SpecDump == DumpInit /\ [][NextDump]_vars

-----------------------------------------------------------------------------
(* The same document rendered twice, each time by a new renderer           *)

\* The documents rendered twice: all those of up to three nodes.
TwiceDocuments == CollectionDocuments \cup Documents(3)

\* runs counts the renders started, first keeps what the first one wrote.
TwiceInit ==
    /\ doc \in TwiceDocuments
    /\ style \in Styles
    /\ \E docIndex \in {0, 1} :
          driver = [running |-> FALSE, runs |-> 0, first |-> <<>>,
                    documentIndex |-> docIndex, documentCount |-> docIndex + 1]
    /\ renderer = NewRenderer(style)
    /\ pc = "new"
    /\ frames = <<>>
    /\ stack = <<>>
    /\ events = <<>>
    /\ out = <<>>
    /\ call = NoCall

\* A renderer is constructed as dumpCollection does, given an empty stream,
\* and its render(doc, docIndex, docCount) is called: up to the call of
\* parse() on the new parser.
Fresh ==
    /\ pc \in {"new", "done", "error"}
    /\ driver.runs < 1 + 1
    /\ driver' = [driver EXCEPT !.runs = driver.runs + 1, !.first = out]
    /\ renderer' = NewRenderer(style)
    /\ out' = render(<<>>, NewRenderer(style), driver.documentIndex)
    /\ events' = <<>>
    /\ stack' = <<>>
    /\ frames' = <<>>
    /\ pc' = "idle"
    /\ UNCHANGED <<doc, style, call>>

NextTwice ==
    \/ Fresh
    \/ ParseStart
    \/ ObjectStart
    \/ ObjectEnd
    \/ ArrayStart
    \/ ArrayEnd
    \/ Element
    \/ ParseEnd

SpecTwice == TwiceInit /\ [][NextTwice]_vars

-----------------------------------------------------------------------------
(* One scalar of every type, rendered with every type mask                 *)

\* The types an element that is neither Object nor Array can have; JSTypeMax
\* is left out because it is the same code as NumberLong.
ScalarTypes == DOMAIN BSONType \ {"Object", "Array", "JSTypeMax"}

\* The documents {a: v}, v a scalar of each type.
TypedDocuments ==
    LET d == CHOOSE c \in CollectionDocuments : c.n > 1 /\ c.kind[c.n] = "NumberInt"
    IN  {[d EXCEPT !.kind[d.n] = t] : t \in ScalarTypes}

\* params.getTypeMask(): every setting of --type, none included.
TypeMasks == SUBSET TYPE_ALL

\* render's parse by one of the two renderers that write type annotations.
TypeInit ==
    /\ doc \in TypedDocuments \cup CollectionDocuments
    /\ style \in {STYLE_TREE, STYLE_DOTTED}
    /\ \E typeMask \in TypeMasks : renderer = WithTypeMask(NewRenderer(style), typeMask)
    /\ pc = "idle"
    /\ frames = <<>>
    /\ stack = <<>>
    /\ events = <<>>
    /\ out = <<>>
    /\ driver = NoDriver
    /\ call = NoCall

SpecType == TypeInit /\ [][Next]_vars

-----------------------------------------------------------------------------
(* One BSONObjectParser, and the renderer it was constructed around, used   *)
(* for a further parse                                                      *)

\* A renderer of each style with the parser render() constructs around it,
\* about to call parse(); runs counts the calls of parse on that parser.
ReparseInit ==
    /\ doc \in TwiceDocuments
    /\ style \in Styles
    /\ driver = [running |-> FALSE, runs |-> 1, first |-> <<>>,
                 documentIndex |-> 0, documentCount |-> 1]
    /\ renderer = NewRenderer(style)
    /\ pc = "idle"
    /\ frames = <<>>
    /\ stack = <<>>
    /\ events = <<>>
    /\ out = <<>>
    /\ call = NoCall

\* parse(object) has returned or has let a handler's exception through; the
\* caller calls parse on the same parser again.  parse() starts with
\* visitor.onParseStart() and touches neither the stack member nor the
\* visitor before it.
Reparse ==
    /\ pc \in {"done", "error"}
    /\ driver.runs < 1 + 1
    /\ driver' = [driver EXCEPT !.runs = driver.runs + 1, !.first = out]
    /\ pc' = "idle"
    /\ UNCHANGED <<doc, frames, stack, events, out, style, renderer, call>>

NextReparse ==
    \/ Reparse
    \/ ParseStart
    \/ ObjectStart
    \/ ObjectEnd
    \/ ArrayStart
    \/ ArrayEnd
    \/ Element
    \/ ParseEnd

SpecReparse == ReparseInit /\ [][NextReparse]_vars

-----------------------------------------------------------------------------
(* A BSONParserStack used through its interface alone                      *)

StackInit ==
    /\ pc = "stack"
    /\ stack = <<>>
    /\ call = NoCall
    /\ doc = EmptyDocument
    /\ frames = <<>>
    /\ events = <<>>
    /\ out = <<>>
    /\ style = STYLE_JSON
    /\ renderer = NewRenderer(style)
    /\ driver = NoDriver

\* The indexes item() is called with: every valid one and some beyond.
Indexes == (0 - MaxDepth - 1)..MaxDepth

\* push(type, element, ...) / push(object, ...): entries are told apart by
\* node, the number of pushes made before.
StackPush ==
    /\ pc = "stack"
    /\ depth(stack) < MaxDepth
    /\ \E t \in ItemTypes :
          stack' = push(stack, BSONParserStackItem(t, depth(stack) + 1, "", 0, 1, -1, 0))
    /\ call' = StackCall("push", 0, stack, void)
    /\ UNCHANGED <<doc, pc, frames, events, out, style, renderer, driver>>

StackPop ==
    /\ pc = "stack"
    /\ stack' = pop(stack).stack
    /\ call' = StackCall("pop", 0, stack, pop(stack).ret)
    /\ UNCHANGED <<doc, pc, frames, events, out, style, renderer, driver>>

\* drop(): delete pop().
StackDrop ==
    /\ pc = "stack"
    /\ stack' = drop(stack)
    /\ call' = StackCall("drop", 0, stack,
                         IF pop(stack).ret = logic_error THEN logic_error ELSE void)
    /\ UNCHANGED <<doc, pc, frames, events, out, style, renderer, driver>>

\* item(index) const.
StackItem ==
    /\ pc = "stack"
    /\ \E index \in Indexes : call' = StackCall("item", index, stack, item(stack, index))
    /\ UNCHANGED <<doc, pc, frames, stack, events, out, style, renderer, driver>>

\* getObject() / getElement() / getArray() const, on an entry of the stack.
StackGet ==
    /\ pc = "stack"
    /\ \E index \in 0..(depth(stack) - 1) :
          \/ call' = StackCall("getObject", index, stack, getObject(item(stack, index)))
          \/ call' = StackCall("getElement", index, stack, getElement(item(stack, index)))
          \/ call' = StackCall("getArray", index, stack, getArray(item(stack, index)))
    /\ UNCHANGED <<doc, pc, frames, stack, events, out, style, renderer, driver>>

\* top() const.
StackTop ==
    /\ pc = "stack"
    /\ call' = StackCall("top", 0, stack, top(stack))
    /\ UNCHANGED <<doc, pc, frames, stack, events, out, style, renderer, driver>>

NextStack ==
    \/ StackPush
    \/ StackPop
    \/ StackDrop
    \/ StackItem
    \/ StackTop
    \/ StackGet

SpecStack == StackInit /\ [][NextStack]_vars

-----------------------------------------------------------------------------
(* Reading the visitor events and the output                               *)

EventIndexes == 1..Len(events)

StartNames == {"onObjectStart", "onArrayStart"}

EndNames == {"onObjectEnd", "onArrayEnd"}

\* Indexes of the events `name` delivered for `node`.
EventsOf(name, node) ==
    {i \in EventIndexes : events[i].name = name /\ events[i].node = node}

CountOf(name) == Cardinality({i \in EventIndexes : events[i].name = name})

\* Index of the event that enters `node` (its start or its onElement), 0 if none yet.
EnterIndex(node) ==
    LET is == {i \in EventIndexes :
                 events[i].node = node /\ events[i].name \in StartNames \cup {"onElement"}}
    IN  IF is = {} THEN 0 ELSE CHOOSE i \in is : \A j \in is : i <= j

\* Index of the event that ends Object or Array `node`, 0 if none yet.
LeaveIndex(node) ==
    LET is == {i \in EventIndexes : events[i].node = node /\ events[i].name \in EndNames}
    IN  IF is = {} THEN 0 ELSE CHOOSE i \in is : \A j \in is : i <= j

\* The chunks written to the output by the handler of event i.
Emitted(i) ==
    SubSeq(out, events[i].outLen + 1,
           IF i < Len(events) THEN events[i + 1].outLen ELSE Len(out))

IsComma(chunk) == chunk.nl = FALSE /\ chunk.text = Comma

CommasIn(chunks) == Cardinality({j \in 1..Len(chunks) : IsComma(chunks[j])})

\* The handler of event i wrote a comma before anything else.
CommaBefore(i) == Emitted(i) # <<>> /\ IsComma(Emitted(i)[1])

\* Node x is the child of its parent that the parse entered first.
IsFirstEntered(x) ==
    \A y \in 2..doc.n : doc.parent[y] = doc.parent[x] => EnterIndex(x) <= EnterIndex(y)

RECURSIVE AncestorsOf(_, _)
AncestorsOf(d, i) ==
    IF d.parent[i] = 0 THEN {} ELSE {d.parent[i]} \cup AncestorsOf(d, d.parent[i])

\* The ancestor-or-self of node i that is a direct element of the nearest
\* Array enclosing i; 0 when no Array encloses i.
RECURSIVE ArrayMember(_, _)
ArrayMember(d, i) ==
    IF d.parent[i] = 0 THEN 0
    ELSE IF d.kind[d.parent[i]] = "Array" THEN i
    ELSE ArrayMember(d, d.parent[i])

\* The fields of every Object of document d carry distinct names.
UniqueFieldNames(d) ==
    \A i \in 2..d.n : \A j \in 2..d.n :
       (i # j /\ d.parent[i] = d.parent[j] /\ d.kind[d.parent[i]] = "Object")
          => d.name[i] # d.name[j]

NodesOfKind(kinds) == {i \in 1..doc.n : doc.kind[i] \in kinds}

IsScalar(i) == doc.kind[i] \notin {"Object", "Array"}

\* Stack of the Object/Array nodes entered and not yet left after the first
\* k events; Mismatch once an end event did not close the innermost of them.
Mismatch == <<[kind |-> "mismatch", node |-> 0]>>

KindOf(name) == IF name \in {"onObjectStart", "onObjectEnd"} THEN "object" ELSE "array"

RECURSIVE OpenAfter(_)
OpenAfter(k) ==
    IF k = 0 THEN <<>>
    ELSE LET prev == OpenAfter(k - 1)
             e == events[k]
             this == [kind |-> KindOf(e.name), node |-> e.node]
         IN  IF prev = Mismatch THEN Mismatch
             ELSE IF e.name \in StartNames THEN Append(prev, this)
             ELSE IF e.name \in EndNames
                  THEN IF prev # <<>> /\ prev[Len(prev)] = this
                       THEN SubSeq(prev, 1, Len(prev) - 1)
                       ELSE Mismatch
             ELSE prev

-----------------------------------------------------------------------------
(* Claims                                                                  *)

\* C1: after a parse that returns normally the context stack has depth 0.
C1_StackEmptyAfterParse == pc = "done" => depth(stack) = 0

\* A parse of a document nested three deep has returned.
C1_Witness ==
    /\ pc = "done"
    /\ \E i \in EventIndexes : depth(events[i].stack) >= 3

\* C2: object starts and ends are equal in number, array starts and ends are
\* equal in number, every end event closes the innermost open start event
\* of the same kind and node, and every event of a descendant of a node lies
\* between the node's start and its end.
C2_StartEndLIFO ==
    /\ OpenAfter(Len(events)) # Mismatch
    /\ pc = "done" =>
          /\ OpenAfter(Len(events)) = <<>>
          /\ CountOf("onObjectStart") = CountOf("onObjectEnd")
          /\ CountOf("onArrayStart") = CountOf("onArrayEnd")
          /\ \A i \in EventIndexes : events[i].node # 0 =>
                \A a \in AncestorsOf(doc, events[i].node) :
                   /\ EnterIndex(a) # 0
                   /\ EnterIndex(a) < i
                   /\ i < LeaveIndex(a)

\* A finished parse that entered an Array inside an Object inside the root.
C2_Witness ==
    /\ pc = "done"
    /\ CountOf("onArrayStart") >= 1
    /\ CountOf("onObjectStart") >= 2
    /\ \E i \in EventIndexes :
          /\ events[i].name = "onArrayEnd"
          /\ depth(events[i].stack) >= 3

\* C3: for a document whose Objects have distinct field names, one parse
\* delivers exactly one onObjectStart and one onObjectEnd per Object, one
\* onArrayStart and one onArrayEnd per Array, one onElement per scalar, and
\* no other object, array or element event.
C3_OneEventPerNode ==
    (pc = "done" /\ UniqueFieldNames(doc)) =>
       /\ \A i \in 1..doc.n :
             /\ Cardinality(EventsOf("onObjectStart", i)) = IF doc.kind[i] = "Object" THEN 1 ELSE 0
             /\ Cardinality(EventsOf("onObjectEnd", i)) = IF doc.kind[i] = "Object" THEN 1 ELSE 0
             /\ Cardinality(EventsOf("onArrayStart", i)) = IF doc.kind[i] = "Array" THEN 1 ELSE 0
             /\ Cardinality(EventsOf("onArrayEnd", i)) = IF doc.kind[i] = "Array" THEN 1 ELSE 0
             /\ Cardinality(EventsOf("onElement", i)) = IF IsScalar(i) THEN 1 ELSE 0
       /\ \A j \in EventIndexes :
             events[j].name \in StartNames \cup EndNames \cup {"onElement"} =>
                events[j].node \in 1..doc.n

\* A finished parse of a document holding a nested Object, an Array and a scalar.
C3_Witness ==
    /\ pc = "done"
    /\ UniqueFieldNames(doc)
    /\ Cardinality(NodesOfKind({"Object"})) >= 2
    /\ NodesOfKind({"Array"}) # {}
    /\ NodesOfKind({"NumberInt"}) # {}

\* C4: onParseStart is delivered exactly once and before every other event,
\* onParseEnd exactly once and after every other event.
C4_ParseStartFirstParseEndLast ==
    /\ \A i \in EventIndexes : events[i].name = "onParseStart" <=> i = 1
    /\ \A i \in EventIndexes : events[i].name = "onParseEnd" => i = Len(events) /\ pc = "done"
    /\ pc = "done" =>
          /\ events[Len(events)].name = "onParseEnd"
          /\ CountOf("onParseStart") = 1
          /\ CountOf("onParseEnd") = 1

\* A finished parse with object, array or element events between the two.
C4_Witness == pc = "done" /\ Len(events) >= 6

\* C5: the fields of an Object and the elements of an Array are entered in
\* the order in which they are stored, without re-ordering.
C5_StoredOrder ==
    pc = "done" =>
       \A i \in 2..doc.n : \A j \in 2..doc.n :
          (doc.parent[i] = doc.parent[j] /\ i < j) => EnterIndex(i) < EnterIndex(j)

\* C5 for Arrays alone: the elements of an Array are entered in stored order.
C5_ArrayStoredOrder ==
    pc = "done" =>
       \A i \in 2..doc.n : \A j \in 2..doc.n :
          (doc.parent[i] = doc.parent[j] /\ i < j /\ doc.kind[doc.parent[i]] = "Array")
             => EnterIndex(i) < EnterIndex(j)

\* C6: the entry pushed for the element at position i of an Array of length
\* n has siblingIndex (elementIndex) i and siblingCount (elementCount) n.
C6_ArrayElementSiblingIndex ==
    \A k \in EventIndexes :
       LET s == events[k].stack
           x == events[k].node
       IN  (x > 1 /\ doc.kind[doc.parent[x]] = "Array") =>
              /\ top(s).elementIndex = PositionOf(doc, x)
              /\ top(s).elementCount = Cardinality(ChildSet(doc, doc.parent[x]))

\* C7: an entry pushed for a node that no Array encloses has (arrayIndex,
\* arrayCount) = (-1, 0); otherwise they are the position and the length in
\* the nearest enclosing Array; arrayCount = 0 iff arrayIndex = -1.
C7_ArrayIndexCount ==
    \A k \in EventIndexes :
       LET s == events[k].stack
           x == events[k].node
           m == ArrayMember(doc, x)
       IN  x # 0 =>
              /\ \/ m = 0 /\ top(s).arrayIndex = -1 /\ top(s).arrayCount = 0
                 \/ /\ m # 0
                    /\ top(s).arrayIndex = PositionOf(doc, m)
                    /\ top(s).arrayCount = Cardinality(ChildSet(doc, doc.parent[m]))
                    /\ 0 <= top(s).arrayIndex
                    /\ top(s).arrayIndex < top(s).arrayCount
              /\ top(s).arrayCount = 0 <=> top(s).arrayIndex = -1

\* C8: the children of an Object or Array with n >= 1 children are separated
\* by exactly n-1 commas: one before each child but the first, none before
\* the first, none after the last.
C8_CommasSeparateChildren ==
    pc = "done" =>
       /\ \A x \in 2..doc.n :
             /\ CommasIn(Emitted(EnterIndex(x))) = IF IsFirstEntered(x) THEN 0 ELSE 1
             /\ ~IsFirstEntered(x) => CommaBefore(EnterIndex(x))
       /\ \A c \in NodesOfKind({"Object", "Array"}) : CommasIn(Emitted(LeaveIndex(c))) = 0
       /\ CommasIn(Emitted(EnterIndex(1))) = 0

\* C9: at onObjectStart, onArrayStart and onElement the JSON renderer writes
\* a comma before the node iff top.siblingIndex > 0 and (the entry two from
\* the top is no ARRAY, or absent, or top.arrayIndex > 0); at onObjectEnd and
\* onArrayEnd it writes none.
C9_CommaRule ==
    \A k \in EventIndexes :
       LET s == events[k].stack
           parentIsArray == depth(s) >= 2 /\ s[depth(s) - 1].type = "ARRAY"
       IN  /\ events[k].name \in StartNames \cup {"onElement"} =>
                /\ CommaBefore(k) <=>
                      (s[depth(s)].elementIndex > 0
                         /\ (~parentIsArray \/ s[depth(s)].arrayIndex > 0))
                /\ CommasIn(Emitted(k)) = IF CommaBefore(k) THEN 1 ELSE 0
           /\ events[k].name \in EndNames => CommasIn(Emitted(k)) = 0

\* An element of an Array was given a comma, a first field none, and an Array
\* was closed.
C9_Witness ==
    /\ \E k \in EventIndexes :
          /\ events[k].name = "onElement"
          /\ depth(events[k].stack) >= 3
          /\ events[k].stack[depth(events[k].stack) - 1].type = "ARRAY"
          /\ CommaBefore(k)
    /\ \E k \in EventIndexes :
          /\ events[k].name \in StartNames \cup {"onElement"}
          /\ depth(events[k].stack) >= 2
          /\ ~CommaBefore(k)
    /\ \E k \in EventIndexes : events[k].name = "onArrayEnd"

\* The root Object has n >= 1 fields, all scalars.
FlatDocument == doc.n >= 2 /\ \A i \in 2..doc.n : doc.parent[i] = 1 /\ IsScalar(i)

IsKey(chunk) == chunk.nl = TRUE /\ \E i \in 2..doc.n : chunk.text = KeyText(doc.name[i])

IsValue(chunk) == chunk.nl = FALSE /\ \E i \in 2..doc.n : chunk.text = <<toString(doc, i)>>

\* C10: for a root Object of n >= 1 scalar fields the JSON output holds
\* exactly n-1 commas, each right after a complete key-value pair and right
\* before the next key, and none after the last pair.
C10_FlatObjectCommas ==
    (pc = "done" /\ FlatDocument) =>
       /\ CommasIn(out) = doc.n - 2
       /\ \A j \in 1..Len(out) : IsComma(out[j]) =>
             /\ j >= 3 /\ IsKey(out[j - 2]) /\ IsValue(out[j - 1])
             /\ j < Len(out) /\ IsKey(out[j + 1])
       /\ out[Len(out)].text = <<"}">>
       /\ IsValue(out[Len(out) - 1])

\* The document {a:_, b:_, c:_} of three scalars has been rendered.
C10_Witness == pc = "done" /\ FlatDocument /\ doc.n = 4 /\ CommasIn(out) = 2

-----------------------------------------------------------------------------
(* C11 *)

ValueNames == {"onObjectStart", "onArrayStart", "onElement"}

\* A chunk that is a key: the quoted name followed by " : ".
IsKeyChunk(chunk) ==
    /\ Len(chunk.text) = Len(KeyText(""))
    /\ chunk.text[1] = KeyText("")[1]
    /\ chunk.text[Len(chunk.text)] = KeyText("")[Len(KeyText(""))]

KeysIn(chunks) == {j \in 1..Len(chunks) : IsKeyChunk(chunks[j])}

\* The entry below the top is the entry of an Object.
EnclosedByObject(s) ==
    depth(s) >= ARRAY_PARENT_OFFSET /\ item(s, -ARRAY_PARENT_OFFSET).type = "OBJECT"

\* C11: the JSON renderer writes "<key>" : right before the value of a node
\* if and only if the collection enclosing the node, item(-2), is an Object;
\* it writes no key for the root and none for a direct element of an Array,
\* and the key it writes is the node's field name.
C11_KeyIffEnclosedByObject ==
    \A k \in EventIndexes :
        LET written == Emitted(k)
            x == events[k].node
        IN  IF events[k].name \in ValueNames
            THEN IF EnclosedByObject(events[k].stack)
                 THEN /\ KeysIn(written) = {Len(written) - 1}
                      /\ written[Len(written) - 1].text = KeyText(fieldName(doc, x))
                 ELSE /\ KeysIn(written) = {}
                      /\ (x = 1 \/ doc.kind[doc.parent[x]] = "Array")
            ELSE KeysIn(written) = {}

\* A finished parse in which a field of an Object got its key, an element of
\* an Array got none and the root got none.
C11_Witness ==
    /\ pc = "done"
    /\ \E k \in EventIndexes :
          /\ events[k].name \in ValueNames
          /\ events[k].node # 1
          /\ doc.kind[doc.parent[events[k].node]] = "Object"
          /\ KeysIn(Emitted(k)) # {}
    /\ \E k \in EventIndexes :
          /\ events[k].name \in ValueNames
          /\ events[k].node # 1
          /\ doc.kind[doc.parent[events[k].node]] = "Array"
          /\ KeysIn(Emitted(k)) = {}
    /\ \E k \in EventIndexes :
          events[k].name = "onObjectStart" /\ events[k].node = 1 /\ KeysIn(Emitted(k)) = {}

-----------------------------------------------------------------------------
(* C12 *)

\* What istr writes before the token of a chunk: "\n" and the indent string
\* once per level; tstr writes nothing before its token.
Whitespace(chunk) ==
    IF chunk.nl
    THEN <<"\n">> \o [i \in 1..chunk.level |-> renderer.indentStr]
    ELSE <<>>

\* C12: with style jsonpacked the JSON renderer writes no newline and no
\* indentation between its tokens.
C12_PackedNoWhitespace ==
    style = STYLE_JSONPACKED => \A j \in 1..Len(out) : Whitespace(out[j]) = <<>>

-----------------------------------------------------------------------------
(* C13 *)

RenderIndexes == {k \in EventIndexes : events[k].name = "render"}

Token(text) == [nl |-> FALSE, level |-> 0, text |-> text]

\* C13: for N >= 0 documents passed through begin, render(doc_i, i, N) and
\* end, the JSON renderer's output is "[", the documents in the order of the
\* cursor with exactly one "," between two consecutive documents, then "]".
C13_DocumentArray ==
    (renderer.class = "JSONDump" /\ driver.running) =>
        /\ pc \in {"idle", "started", "parsing", "done"} =>
              doc = driver.cursor.batch[driver.documentIndex]
        /\ \A k \in RenderIndexes :
              /\ events[k].node = Cardinality({j \in RenderIndexes : j < k})
              /\ Emitted(k) = IF events[k].node > 0 THEN <<Token(Comma)>> ELSE <<>>
              /\ events[k].node > 0 =>
                    /\ events[k - 1].name = "onParseEnd" /\ Emitted(k - 1) = <<>>
                    /\ events[k - (1 + 1)].name = "onObjectEnd"
                    /\ events[k - (1 + 1)].node = 1
                    /\ CommasIn(Emitted(k - (1 + 1))) = 0
              /\ k + 1 \in EventIndexes => events[k + 1].name = "onParseStart"
              /\ k + 1 + 1 \in EventIndexes =>
                    /\ Emitted(k + 1) = <<>>
                    /\ events[k + 1 + 1].name = "onObjectStart"
                    /\ CommasIn(Emitted(k + 1 + 1)) = 0
        /\ pc = "ended" =>
              /\ Cardinality(RenderIndexes) = driver.documentCount
              /\ Head(out) = Token(<<"[">>)
              /\ out[Len(out)] = Token(<<"\n]">>)
              /\ events[1].name = "begin" /\ Emitted(1) = <<Token(<<"[">>)>>
              /\ events[Len(events)].name = "end"
              /\ Emitted(Len(events)) = <<Token(<<"\n]">>)>>
              /\ \A k \in EventIndexes : events[k].name \in {"begin", "end"} =>
                    k \in {1, Len(events)}

\* Three documents, not all the same, written as a JSON array.
C13_Witness ==
    /\ renderer.class = "JSONDump"
    /\ pc = "ended"
    /\ driver.documentCount = MaxDocs
    /\ driver.cursor.batch[1] # driver.cursor.batch[MaxDocs]
    /\ CommasIn(out) = MaxDocs - 1

-----------------------------------------------------------------------------
(* C14 *)

\* C14: in the tree style the number n of the " {ARRAY[n]}" annotation written
\* at onArrayStart is the number of elements of that Array.
C14_ArrayAnnotationCount ==
    renderer.class = "BSONObjectTypeDump" =>
        \A k \in EventIndexes :
            events[k].name = "onArrayStart" =>
                Emitted(k) = <<Token(<<" {ARRAY[",
                                       to_string(Len(Array(doc, events[k].node))),
                                       "]}">>)>>

\* The other half of C14, which holds: a scalar element of an Array is written
\* on a line of its own, indented one level deeper than the Array, whose own
\* level is the number of collections enclosing it.
C14_ElementsOneLevelDeeper ==
    renderer.class = "BSONObjectTypeDump" =>
        \A k \in EventIndexes :
            (events[k].name = "onElement" /\ doc.kind[doc.parent[events[k].node]] = "Array") =>
                /\ Len(Emitted(k)) = 1
                /\ Emitted(k)[1].nl
                /\ Emitted(k)[1].level =
                       Cardinality(AncestorsOf(doc, doc.parent[events[k].node])) + 1

-----------------------------------------------------------------------------
(* C15 *)

\* A document {k1: {k2: ... {kn: scalar}}}: every node but the root is the
\* only child of the node before it, and only the last node is a scalar.
ChainToScalar(d) ==
    /\ d.n >= 1 + 1
    /\ \A i \in 1..d.n :
          /\ i > 1 => d.parent[i] = i - 1
          /\ d.kind[i] = IF i < d.n THEN "Object" ELSE "NumberInt"

\* T.k1.k2...kn for such a document.
DottedPath(d) == <<DbCollection>> \o Concat([i \in 1..(d.n - 1) |-> <<".", d.name[i + 1]>>])

\* C15: in the dotted style a document holding a single scalar reached through
\* nested Object fields k1, ..., kn is written as exactly one line, and the
\* line starts with the path T.k1.k2...kn.
C15_DottedPath ==
    (renderer.class = "BSONDotNotationDump" /\ pc = "done" /\ ChainToScalar(doc)) =>
        /\ Len(out) = 1
        /\ Len(out[1].text) >= Len(DottedPath(doc))
        /\ SubSeq(out[1].text, 1, Len(DottedPath(doc))) = DottedPath(doc)

-----------------------------------------------------------------------------
(* C16 *)

\* Sequence u occurs in sequence t as a run of consecutive elements.
Contains(t, u) ==
    \E i \in 0..(Len(t) - Len(u)) : SubSeq(t, i + 1, i + Len(u)) = u

\* The Arrays enclosing node i.
ArraysAround(d, i) == {a \in AncestorsOf(d, i) : d.kind[a] = "Array"}

\* C16: in the dotted style onArrayStart appends "." and the Array's field
\* name to the path (onArrayEnd removes it), so that, once the rendering has
\* ended, every scalar inside an Array has been written on a line whose path
\* contains the field name of that Array.
C16_ArrayFieldInPath ==
    renderer.class = "BSONDotNotationDump" =>
        /\ (events # <<>> /\ events[Len(events)].name = "onArrayStart") =>
              renderer.dotStack[Len(renderer.dotStack)] =
                  <<".", fieldName(doc, events[Len(events)].node)>>
        /\ pc \in {"done", "error"} =>
              \A x \in 1..doc.n : \A a \in ArraysAround(doc, x) :
                  IsScalar(x) =>
                      \E j \in 1..Len(out) :
                          /\ Contains(out[j].text, ElementText(doc, x))
                          /\ Contains(out[j].text, <<".", fieldName(doc, a)>>)

-----------------------------------------------------------------------------
(* C17 *)

\* C17: whatever the well-formed document and whichever of the three
\* renderers, no error is raised while the document is rendered.
C17_NoErrorRaised == pc # "error"

-----------------------------------------------------------------------------
(* C18 *)

\* C18: on a stack of depth d, item(i) with 0 <= i < d returns the (i+1)-th
\* entry from the bottom, item(-k) with 1 <= k <= d returns what item(d - k)
\* returns, top() returns what item(-1) returns, and none of these calls
\* changes the stack.
C18_ItemIndexing ==
    pc = "stack" =>
        LET s == call.before
            d == depth(s)
        IN  /\ (call.op = "item" /\ 0 <= call.index /\ call.index < d) =>
                  call.ret = s[call.index + 1] /\ stack = s
            /\ (call.op = "item" /\ 0 - d <= call.index /\ call.index <= 0 - 1) =>
                  call.ret = s[d + call.index + 1] /\ stack = s
            /\ (call.op = "top" /\ d >= 1) =>
                  call.ret = s[d] /\ stack = s

\* item(-MaxDepth) on a full stack has returned the bottom entry.
C18_Witness ==
    /\ call.op = "item"
    /\ depth(call.before) = MaxDepth
    /\ call.index = 0 - MaxDepth
    /\ call.ret = call.before[1]
    /\ call.ret # call.before[MaxDepth]

\* top() on a stack of two entries or more has returned the last one.
C18_WitnessTop ==
    /\ call.op = "top"
    /\ depth(call.before) > 1
    /\ call.ret = call.before[depth(call.before)]

-----------------------------------------------------------------------------
(* C19 *)

\* C19: pop() and drop() on an empty stack, and item(i) with a non-negative
\* i >= depth, fail with std::logic_error and leave the stack unchanged.
C19_UnderflowThrows ==
    pc = "stack" =>
        /\ (call.op \in {"pop", "drop"} /\ call.before = <<>>) =>
              call.ret = logic_error /\ stack = call.before
        /\ (call.op = "item" /\ call.index >= depth(call.before)) =>
              call.ret = logic_error /\ stack = call.before

\* pop() has failed on an empty stack and left it empty.
C19_Witness ==
    /\ call.op = "pop"
    /\ call.before = <<>>
    /\ call.ret = logic_error
    /\ stack = <<>>

-----------------------------------------------------------------------------
(* C20 *)

\* C20: on an empty stack, top() and item(i) with a negative i end by failing
\* with std::logic_error.
C20_EmptyStackThrows ==
    (pc = "stack" /\ call.before = <<>>
        /\ (call.op = "top" \/ (call.op = "item" /\ call.index < 0))) =>
        call.ret = logic_error

-----------------------------------------------------------------------------
(* C21 *)

\* C21: on a non-empty stack of depth d, item(i) with i < -d fails with
\* std::logic_error; it returns no entry of the stack.
C21_NegativeOutOfRangeThrows ==
    (pc = "stack" /\ call.op = "item" /\ call.before # <<>>
        /\ call.index < 0 - depth(call.before)) =>
        call.ret = logic_error

-----------------------------------------------------------------------------
(* C22 *)

\* The kind of entry each accessor is for.
AccessorKind ==
    [getObject |-> "OBJECT", getElement |-> "ELEMENT", getArray |-> "ARRAY"]

\* C22: getObject(), getElement() and getArray() return what the entry stores
\* only on an entry of kind OBJECT, ELEMENT and ARRAY respectively; on an
\* entry of another kind they fail with std::logic_error.
C22_AccessorsValidate ==
    (pc = "stack" /\ call.op \in DOMAIN AccessorKind) =>
        LET entry == call.before[call.index + 1]
        IN  /\ call.ret = IF entry.type = AccessorKind[call.op] THEN entry ELSE logic_error
            /\ stack = call.before

\* getElement() has failed on an ARRAY entry lying below another entry.
C22_Witness ==
    /\ call.op = "getElement"
    /\ depth(call.before) > 1
    /\ call.before[call.index + 1].type = "ARRAY"
    /\ call.index = 0
    /\ call.ret = logic_error

-----------------------------------------------------------------------------
(* C23 *)

\* The enabled components of the annotation of a type, in the order name,
\* description, code.
Components(typeMask, t) ==
    (IF "TYPE_NAME" \in typeMask THEN <<lookup(t).name>> ELSE <<>>)
        \o (IF "TYPE_DESC" \in typeMask THEN <<lookup(t).desc>> ELSE <<>>)
        \o (IF "TYPE_CODE" \in typeMask THEN <<to_string(BSONType[t])>> ELSE <<>>)

\* The strings of parts with sep between each two of them.
RECURSIVE Join(_, _)
Join(parts, sep) ==
    IF Len(parts) <= 1
    THEN parts
    ELSE <<Head(parts), sep>> \o Join(Tail(parts), sep)

\* What follows the element's text on its line: a blank, the annotation and,
\* in the dotted style, the end of the line.
AfterElement(k) ==
    LET text == Emitted(k)[1].text
        e == ElementText(doc, events[k].node)
        start == CHOOSE i \in 1..Len(text) : SubSeq(text, i, i + Len(e) - 1) = e
    IN  SubSeq(text, start + Len(e), Len(text))

EndOfLine == IF renderer.class = "BSONDotNotationDump" THEN <<"\n">> ELSE <<>>

-----------------------------------------------------------------------------
(* C24 *)

\* The name and description the table lists for type t, read off the
\* initializer list by the name of the enumerator.
Listed(t) == \E i \in 1..Len(BSONTypeLookupTable) : BSONTypeLookupTable[i].second.name = t

ListedDesc(t) ==
    BSONTypeLookupTable[CHOOSE i \in 1..Len(BSONTypeLookupTable) :
                            BSONTypeLookupTable[i].second.name = t].second.desc

\* C24: lookup returns the table's name and description for a type the table
\* lists and ("UNKNOWN", "UNKNOWN") for any other; it raises no error, so a
\* scalar of an unlisted type does not stop the rendering of its document.
C24_LookupTotal ==
    doc \in TypedDocuments =>
        /\ pc # "error"
        /\ \A k \in EventIndexes :
              events[k].name = "onElement" =>
                  LET t == doc.kind[events[k].node]
                      name == IF Listed(t) THEN t ELSE "UNKNOWN"
                      desc == IF Listed(t) THEN ListedDesc(t) ELSE "UNKNOWN"
                  IN  /\ lookup(t) = BSONTypeElement(name, desc)
                      /\ "TYPE_NAME" \in renderer.typeMask =>
                            Contains(AfterElement(k), <<"(", name>>)
                      /\ "TYPE_DESC" \in renderer.typeMask =>
                            Contains(AfterElement(k), <<"/", desc>>)

\* A document holding a scalar of an unlisted type has been rendered to its
\* end, the scalar annotated as UNKNOWN.
C24_Witness ==
    /\ pc = "done"
    /\ doc \in TypedDocuments
    /\ ~Listed(doc.kind[doc.n])
    /\ renderer.typeMask = TYPE_ALL
    /\ \E j \in 1..Len(out) : Contains(out[j].text, <<"(", "UNKNOWN", "/", "UNKNOWN", "/">>)

-----------------------------------------------------------------------------
(* C25 *)

\* C25: dumpCollection calls begin once and first, then render once per
\* document of the cursor, in cursor order and with docIndex 0, 1, 2, ...,
\* each render's parse ending before the next call, then end once and last.
C25_DriverSequence ==
    driver.running =>
        /\ \A k \in EventIndexes :
              /\ (events[k].name = "begin") = (k = 1)
              /\ events[k].name = "end" => k = Len(events) /\ pc = "ended"
              /\ events[k].name \in {"render", "end"} =>
                    events[k - 1].name \in {"begin", "onParseEnd"}
              /\ events[k].name = "render" =>
                    events[k].node = Cardinality({j \in RenderIndexes : j < k})
              /\ (events[k].name = "onParseStart") = (k > 1 /\ events[k - 1].name = "render")
        /\ Cardinality(RenderIndexes) = driver.documentIndex
        /\ driver.documentIndex = driver.cursor.pos
        /\ pc \in {"idle", "started", "parsing", "done", "error"} =>
              /\ driver.documentIndex > 0
              /\ doc = driver.cursor.batch[driver.documentIndex]
        /\ pc = "ended" =>
              /\ events[Len(events)].name = "end"
              /\ Cardinality(RenderIndexes) = Len(driver.cursor.batch)

\* The tree renderer was driven through MaxDocs documents and end.
C25_Witness ==
    /\ pc = "ended"
    /\ style = STYLE_TREE
    /\ Cardinality(RenderIndexes) = MaxDocs
    /\ driver.cursor.batch[1] # driver.cursor.batch[MaxDocs]

-----------------------------------------------------------------------------
(* C26 *)

-----------------------------------------------------------------------------
(* C27 *)

NodeEventNames == StartNames \cup EndNames \cup {"onElement"}

\* Nesting depth of node i: 1 for the root, one more than its parent otherwise.
NestingDepth(d, i) == Cardinality(AncestorsOf(d, i)) + 1

\* The stack once the traverser is done with event k: an entry is popped
\* after an end event and after onElement, none after a start event.
StackAfter(k) ==
    IF events[k].name \in EndNames \cup {"onElement"}
    THEN SubSeq(events[k].stack, 1, Len(events[k].stack) - 1)
    ELSE events[k].stack

\* C27: at every visitor event about a node the stack is as deep as the node
\* is nested (root 1, a child one more than its parent).  Between two
\* consecutive events the stack changes only by the pop that follows an end
\* event or onElement and by the one push that precedes a start event or
\* onElement: the entry is pushed immediately before the start, popped
\* immediately after the end.
C27_DepthIsNesting ==
    /\ \A k \in EventIndexes :
          events[k].name \in NodeEventNames =>
             depth(events[k].stack) = NestingDepth(doc, events[k].node)
    /\ \A k \in EventIndexes \ {1} :
          /\ events[k].name \in StartNames \cup {"onElement"} =>
                /\ events[k].stack # <<>>
                /\ SubSeq(events[k].stack, 1, Len(events[k].stack) - 1) = StackAfter(k - 1)
          /\ events[k].name \in EndNames \cup {"onParseEnd"} =>
                events[k].stack = StackAfter(k - 1)
    /\ (events # <<>> /\ pc # "error") => stack = StackAfter(Len(events))

\* A Scalar nested three deep was visited and the parse has ended with the
\* stack empty again.
C27_Witness ==
    /\ pc = "done"
    /\ stack = <<>>
    /\ \E k \in EventIndexes :
          /\ events[k].name = "onElement"
          /\ NestingDepth(doc, events[k].node) = 3
          /\ depth(events[k].stack) = 3

-----------------------------------------------------------------------------
(* C28 *)

\* The kind of stack entry each node event is delivered with.
EntryKind(name) ==
    CASE name \in {"onObjectStart", "onObjectEnd"} -> "OBJECT"
      [] name \in {"onArrayStart", "onArrayEnd"} -> "ARRAY"
      [] OTHER -> "ELEMENT"

\* C28: at onObjectStart and onObjectEnd the top entry of the stack is of kind
\* OBJECT, at onArrayStart and onArrayEnd of kind ARRAY, at onElement of kind
\* ELEMENT, and it is the entry of the node the event is about.
C28_TopIsTheNode ==
    \A k \in EventIndexes :
       events[k].name \in NodeEventNames =>
          /\ events[k].stack # <<>>
          /\ top(events[k].stack).type = EntryKind(events[k].name)
          /\ top(events[k].stack).node = events[k].node
          /\ EntryKind(events[k].name) =
                (CASE type(doc, events[k].node) = "Object" -> "OBJECT"
                   [] type(doc, events[k].node) = "Array" -> "ARRAY"
                   [] OTHER -> "ELEMENT")

\* The five node events have all been delivered: an Object inside an Array
\* and a Scalar were entered and left.
C28_Witness ==
    /\ pc = "done"
    /\ \A name \in NodeEventNames : CountOf(name) > 0
    /\ \E k \in EventIndexes :
          /\ events[k].name = "onObjectEnd"
          /\ events[k].node # 1
          /\ top(events[k].stack).type = "OBJECT"

-----------------------------------------------------------------------------
(* C29 *)

-----------------------------------------------------------------------------
(* C30 *)

\* The fields of the Object holding field x that were entered before x.
VisitedBefore(x) ==
    {y \in ChildSet(doc, doc.parent[x]) :
        y # x /\ EnterIndex(y) # 0 /\ EnterIndex(y) < EnterIndex(x)}

\* C30: in a document whose Objects have distinct field names, the k-th field
\* visited of an Object with n fields (k counted from 0) carries
\* elementIndex = k and elementCount = n in its stack entry, at its start
\* event, its end event or its onElement, whether it is a Scalar, an Array
\* or an Object.
C30_FieldIndexAndCount ==
    UniqueFieldNames(doc) =>
       \A j \in EventIndexes :
          (/\ events[j].name \in NodeEventNames
           /\ events[j].node # 1
           /\ type(doc, doc.parent[events[j].node]) = "Object") =>
             LET x == events[j].node
                 it == top(events[j].stack)
             IN  /\ it.elementIndex = Cardinality(VisitedBefore(x))
                 /\ it.elementCount = Cardinality(ChildSet(doc, doc.parent[x]))

\* An Object with three fields, a Scalar, an Array and an Object, has been
\* visited; its last field was entered with elementIndex 2 of elementCount 3.
C30_Witness ==
    /\ pc = "done"
    /\ UniqueFieldNames(doc)
    /\ \E p \in NodesOfKind({"Object"}) :
          /\ Cardinality(ChildSet(doc, p)) = 3
          /\ \E x \in ChildSet(doc, p) : type(doc, x) = "Object"
          /\ \E x \in ChildSet(doc, p) : type(doc, x) = "Array"
          /\ \E x \in ChildSet(doc, p) : IsScalar(x)
          /\ \E x \in ChildSet(doc, p) :
                /\ EnterIndex(x) # 0
                /\ top(events[EnterIndex(x)].stack).elementIndex = 3 - 1
                /\ top(events[EnterIndex(x)].stack).elementCount = 3

-----------------------------------------------------------------------------
(* C31 *)

\* C31: a direct element of an Array of length n stored at position i
\* (counted from 0) carries arrayIndex = i and arrayCount = n in its stack
\* entry at each of its events, whether it is a Scalar, an Array or an
\* Object, and the elements of one Array are entered in increasing i.
C31_ArrayIndexAndCount ==
    /\ \A j \in EventIndexes :
          (/\ events[j].name \in NodeEventNames
           /\ events[j].node # 1
           /\ type(doc, doc.parent[events[j].node]) = "Array") =>
             LET x == events[j].node
                 it == top(events[j].stack)
             IN  /\ it.arrayIndex = PositionOf(doc, x)
                 /\ it.arrayCount = Cardinality(ChildSet(doc, doc.parent[x]))
    /\ \A a \in NodesOfKind({"Array"}) :
          \A x \in ChildSet(doc, a) : \A y \in ChildSet(doc, a) :
             (PositionOf(doc, x) < PositionOf(doc, y) /\ EnterIndex(y) # 0) =>
                (EnterIndex(x) # 0 /\ EnterIndex(x) < EnterIndex(y))

\* An Array of three elements, one of them an Object and one an Array, has
\* been visited; its last element was entered with arrayIndex 2 of
\* arrayCount 3.
C31_Witness ==
    /\ pc = "done"
    /\ \E a \in NodesOfKind({"Array"}) :
          /\ Cardinality(ChildSet(doc, a)) = 3
          /\ \E x \in ChildSet(doc, a) : type(doc, x) = "Object"
          /\ \E x \in ChildSet(doc, a) : type(doc, x) = "Array"
          /\ \E x \in ChildSet(doc, a) :
                /\ EnterIndex(x) # 0
                /\ top(events[EnterIndex(x)].stack).arrayIndex = 3 - 1
                /\ top(events[EnterIndex(x)].stack).arrayCount = 3

-----------------------------------------------------------------------------
(* C32 *)

\* Object x is a direct element of an Array.
InArray(x) == x # 1 /\ type(doc, doc.parent[x]) = "Array"

\* C32: the tree renderer writes the index marker "[<arrayIndex>]: " before
\* the opening brace of an Object exactly when the Object is a direct element
\* of an Array, with its position in that Array; an Object that is a field of
\* another Object gets the brace alone.
C32_IndexMarkerOnlyInArray ==
    \A j \in EventIndexes :
       (events[j].name = "onObjectStart" /\ Emitted(j) # <<>>) =>
          LET x == events[j].node
          IN  Emitted(j)[1].text =
                 IF InArray(x)
                 THEN <<"[", to_string(PositionOf(doc, x)), "]: ", "{">>
                 ELSE <<"{">>

-----------------------------------------------------------------------------
(* C33 *)

\* C33: at the start of every parse on a BSONObjectParser the stack is empty
\* and the root is pushed at depth 1, also when the parse is the second on
\* that parser and when the parse before it was ended by a handler's error.
C33_StackEmptyAtParseStart ==
    \A j \in EventIndexes :
       /\ events[j].name = "onParseStart" => events[j].stack = <<>>
       /\ (events[j].name = "onObjectStart" /\ events[j].node = 1) =>
             depth(events[j].stack) = 1

\* The part of C33 that holds: a parse that follows one that returned starts
\* with the stack empty.
C33_StackEmptyAfterReturn ==
    \A j \in EventIndexes \ {1} :
       (events[j].name = "onParseStart" /\ events[j - 1].name = "onParseEnd") =>
          events[j].stack = <<>>

-----------------------------------------------------------------------------
(* C34 *)

\* C34: when onParseStart has run, the tree renderer's indent level is 0 and
\* the dotted renderer's segment stack holds the root token it was
\* constructed with and nothing else, whatever the parse before it on the
\* same renderer did, a parse ended by a handler's error included.
C34_RendererStateAtParseStart ==
    pc = "started" =>
       /\ style = STYLE_TREE => renderer.level = 0
       /\ style = STYLE_DOTTED => renderer.dotStack = NewRenderer(style).dotStack

\* The dotted renderer has thrown in onArrayStart and the onParseStart of the
\* next parse on it has run.
C34_Witness ==
    /\ pc = "started"
    /\ style = STYLE_DOTTED
    /\ driver.runs > 1
    /\ Len(events) > 1
    /\ events[Len(events)].name = "onParseStart"
    /\ events[Len(events) - 1].name = "onArrayStart"

\* The onParseStart of a second parse on a tree renderer has run, after a
\* parse that went three levels deep.
C34_TreeReached ==
    /\ pc = "started"
    /\ style = STYLE_TREE
    /\ driver.runs > 1
    /\ \E j \in EventIndexes : depth(events[j].stack) = 3

-----------------------------------------------------------------------------
(* C35 *)

\* C35: in the tree renderer the indent level is never negative.  Each of
\* onObjectStart, onArrayStart and onElement finds it equal to the stack
\* depth minus 1: a start handler leaves it one higher, onElement as it was,
\* and an end handler brings it back to what the matching start found.  An
\* Object's closing brace is written at the indent of its opening brace, and
\* once a parse has returned the level is 0.
C35_IndentLevel ==
    /\ renderer.level >= 0
    /\ pc = "done" => renderer.level = 0
    /\ (events # <<>> /\ events[Len(events)].name \in NodeEventNames) =>
          LET e == events[Len(events)]
          IN  renderer.level =
                 IF e.name \in StartNames THEN (depth(e.stack) - 1) + 1
                 ELSE depth(e.stack) - 1
    /\ \A j \in EventIndexes :
          events[j].name \in {"onObjectStart", "onElement"} =>
             /\ Emitted(j) # <<>>
             /\ Emitted(j)[1].nl
             /\ Emitted(j)[1].level = depth(events[j].stack) - 1
    /\ \A x \in NodesOfKind({"Object"}) :
          LeaveIndex(x) # 0 =>
             /\ Emitted(LeaveIndex(x)) # <<>>
             /\ Emitted(LeaveIndex(x))[1].level = Emitted(EnterIndex(x))[1].level
             /\ Emitted(LeaveIndex(x))[1].text = <<"}">>

\* The tree renderer has finished a document with an Object inside an Array:
\* that Object's braces are both at indent 2 and the level is 0 again.
C35_Witness ==
    /\ pc = "done"
    /\ style = STYLE_TREE
    /\ renderer.level = 0
    /\ \E x \in NodesOfKind({"Object"}) :
          /\ InArray(x)
          /\ LeaveIndex(x) # 0
          /\ Emitted(EnterIndex(x))[1].level = 1 + 1
          /\ Emitted(LeaveIndex(x))[1].level = 1 + 1

-----------------------------------------------------------------------------
(* C36 *)

OpeningBrackets == {<<"{">>, <<"[">>}

ClosingBrackets == {<<"}">>, <<"]">>}

\* The indent of the line chunk i of the output is on: the level of the last
\* chunk up to i that starts a line.
LineLevel(i) ==
    LET starts == {j \in 1..i : out[j].nl}
    IN  IF starts = {} THEN 0 ELSE out[CHOOSE j \in starts : \A k \in starts : k <= j].level

\* Closing bracket chunk c closes opening bracket chunk o: same kind of
\* bracket, and c is indented as the line of o.
Closes(o, c) ==
    /\ (out[o].text = <<"{">>) = (out[c].text = <<"}">>)
    /\ out[c].nl
    /\ out[c].level = LineLevel(o)

BadNesting == <<0>>

\* The indexes of the opening brackets among the first k chunks of the output
\* that are not closed yet, innermost last; BadNesting once a closing bracket
\* did not close the innermost of them.
RECURSIVE OpenBrackets(_)
OpenBrackets(k) ==
    IF k = 0 THEN <<>>
    ELSE LET before == OpenBrackets(k - 1)
         IN  IF before = BadNesting THEN BadNesting
             ELSE IF out[k].text \in OpeningBrackets THEN Append(before, k)
             ELSE IF out[k].text \in ClosingBrackets
                  THEN IF before # <<>> /\ Closes(before[Len(before)], k)
                       THEN SubSeq(before, 1, Len(before) - 1)
                       ELSE BadNesting
                  ELSE before

\* C36: the brackets the JSON renderer writes for one document are properly
\* nested.  Each start handler ends with its opening bracket and each end
\* handler writes the closing bracket alone; a closing bracket closes the
\* innermost open bracket, is of its kind and is indented as the line that
\* carries it, which is the stack depth; when the parse has returned every
\* bracket is closed.
C36_BracketsNested ==
    /\ OpenBrackets(Len(out)) # BadNesting
    /\ pc = "done" => OpenBrackets(Len(out)) = <<>>
    /\ \A j \in EventIndexes :
          /\ events[j].name \in StartNames =>
                /\ Emitted(j) # <<>>
                /\ Emitted(j)[Len(Emitted(j))].text =
                      (IF events[j].name = "onObjectStart" THEN <<"{">> ELSE <<"[">>)
                /\ LineLevel(events[j].outLen + Len(Emitted(j))) = depth(events[j].stack)
          /\ events[j].name \in EndNames =>
                /\ Len(Emitted(j)) = 1
                /\ Emitted(j)[1].text =
                      (IF events[j].name = "onObjectEnd" THEN <<"}">> ELSE <<"]">>)
                /\ Emitted(j)[1].level = depth(events[j].stack)
          /\ events[j].name = "onElement" =>
                \A c \in 1..Len(Emitted(j)) :
                   Emitted(j)[c].text \notin OpeningBrackets \cup ClosingBrackets

\* The JSON of a document with an Object inside an Array is complete: four
\* brackets or more were written and closed, one pair at indent 3.
C36_Witness ==
    /\ pc = "done"
    /\ OpenBrackets(Len(out)) = <<>>
    /\ \E x \in NodesOfKind({"Object"}) :
          /\ InArray(x)
          /\ Emitted(LeaveIndex(x))[1].level = 3
          /\ Emitted(LeaveIndex(x))[1].text = <<"}">>
    /\ \E i \in 1..Len(out) : out[i].text = <<"]">>

-----------------------------------------------------------------------------
(* C37 *)

\* C37: at every visitor event that is handed the stack, the bottom entry
\* item(0) is the entry of the root Object, with key "", elementIndex 0,
\* elementCount 1, arrayIndex -1 and arrayCount 0, and every entry below the
\* top is an OBJECT or an ARRAY entry: an ELEMENT entry is only ever the top.
C37_RootAtBottom ==
    \A j \in EventIndexes :
       events[j].name \in NodeEventNames =>
          LET s == events[j].stack
          IN  /\ depth(s) >= 1
              /\ item(s, 0) = BSONParserStackItem("OBJECT", 1, "", 0, 1, -1, 0)
              /\ \A i \in 0..(depth(s) - 1 - 1) : item(s, i).type \in {"OBJECT", "ARRAY"}

\* A Scalar was visited with the stack three deep: an ELEMENT entry on top
\* of an ARRAY entry on top of the root's entry.
C37_Witness ==
    \E j \in EventIndexes :
       /\ events[j].name = "onElement"
       /\ depth(events[j].stack) = 3
       /\ top(events[j].stack).type = "ELEMENT"
       /\ item(events[j].stack, 1).type = "ARRAY"
       /\ item(events[j].stack, 0).node = 1

-----------------------------------------------------------------------------
(* C38 *)

\* C38: the stack handed to the onObjectEnd or onArrayEnd of a node is the
\* stack that was handed to the onObjectStart or onArrayStart of that node:
\* the same depth and, entry by entry, the same kind, key, elementIndex,
\* elementCount, arrayIndex and arrayCount.
C38_SameStackAtStartAndEnd ==
    \A x \in NodesOfKind({"Object", "Array"}) :
       LeaveIndex(x) # 0 =>
          /\ EnterIndex(x) # 0
          /\ EnterIndex(x) < LeaveIndex(x)
          /\ depth(events[LeaveIndex(x)].stack) = depth(events[EnterIndex(x)].stack)
          /\ \A i \in 0..(depth(events[EnterIndex(x)].stack) - 1) :
                item(events[LeaveIndex(x)].stack, i) = item(events[EnterIndex(x)].stack, i)

\* An Array holding an element that holds an element has been left: entries
\* were pushed and dropped two deep above the Array's between its start and
\* its end.
C38_Witness ==
    \E a \in NodesOfKind({"Array"}) :
       /\ LeaveIndex(a) # 0
       /\ LeaveIndex(a) > EnterIndex(a) + 3
       /\ \E j \in EventIndexes :
             /\ EnterIndex(a) < j
             /\ j < LeaveIndex(a)
             /\ depth(events[j].stack) = depth(events[EnterIndex(a)].stack) + 1 + 1
       /\ events[LeaveIndex(a)].stack = events[EnterIndex(a)].stack

-----------------------------------------------------------------------------
(* C39 *)

\* The handler of event j threw: what the handler does with the stack it was
\* handed at event j.
Threw(j) ==
    LET e == events[j]
    IN  CASE e.name = "onObjectStart" -> onObjectStart(out, renderer, e.stack).thrown
          [] e.name = "onObjectEnd" -> onObjectEnd(out, renderer, e.stack).thrown
          [] e.name = "onArrayStart" -> onArrayStart(doc, out, renderer, e.stack).thrown
          [] e.name = "onArrayEnd" -> onArrayEnd(out, renderer, e.stack).thrown
          [] e.name = "onElement" -> onElement(doc, out, renderer, e.stack).thrown
          [] OTHER -> FALSE

\* C39: when a handler throws during parse, the error leaves parse and no
\* further visitor event is delivered for the document: the event of the
\* handler that threw stays the last one, and there is no onParseEnd.
C39_NoEventAfterError ==
    /\ \A j \in EventIndexes : Threw(j) => (j = Len(events) /\ pc = "error")
    /\ pc = "error" =>
          /\ events # <<>>
          /\ Threw(Len(events))
          /\ CountOf("onParseEnd") = 0
          /\ frames = <<>>

\* The dotted renderer threw at the Array that is the second field of the
\* root: the first field was visited, the third never is.
C39_Witness ==
    /\ pc = "error"
    /\ style = STYLE_DOTTED
    /\ Cardinality(ChildSet(doc, 1)) = 3
    /\ CountOf("onElement") = 1
    /\ events[Len(events)].name = "onArrayStart"
    /\ Len(events) = 1 + 1 + 1 + 1

====
